---- MODULE Spec2Model ----
(***************************************************************************)
(* Model of py7z.py: archive_create, archive_test and archive_extract      *)
(* validate their arguments, build an argument vector for 7z.exe, spawn    *)
(* it with subprocess.check_output, decode its output as cp1252 and look   *)
(* for the marker 'Everything is Ok'.                                      *)
(*                                                                         *)
(* A Python str is a sequence of characters; a character is a one-letter   *)
(* string for printable ASCII and "U+<code point>" otherwise (chr).  A     *)
(* bytes object is a sequence of integers 0..255.  A dynamic argument is   *)
(* a record of its type and value (PyNone, PyBool, PyStr, PyInt).  os.path *)
(* is posixpath with the current directory CWD.  Assertions are enabled    *)
(* (the interpreter runs without -O).                                      *)
(***************************************************************************)
EXTENDS Integers, Sequences, FiniteSets, TLC

\* longest files_and_folders list a caller passes
MaxFiles == 2

VARIABLES fs, pc, op, args, argv, spawned, proc, outcome

vars == <<fs, pc, op, args, argv, spawned, proc, outcome>>

----------------------------------------------------------------------------
(* Python values *)

\* a dynamically typed argument: its type, and its value as a bool or as a
\* str (for an int, the digits of its repr)
PyNone == [t |-> "NoneType", b |-> FALSE, s |-> <<>>]
PyBool(x) == [t |-> "bool", b |-> x, s |-> <<>>]
PyStr(x) == [t |-> "str", b |-> FALSE, s |-> x]
PyInt(digits) == [t |-> "int", b |-> FALSE, s |-> digits]

\* bool(v)
Truthy(v) ==
  CASE v.t = "bool" -> v.b
    [] v.t = "str" -> v.s # <<>>
    [] v.t = "int" -> v.s # <<"0">>
    [] OTHER -> FALSE

Range(s) == {s[i] : i \in 1..Len(s)}

\* chr(32..126), in code point order (chr(96), the grave accent, is written
\* "U+96")
AsciiPrintable ==
  <<" ", "!", "\"", "#", "$", "%", "&", "'", "(", ")", "*", "+", ",", "-", ".", "/",
    "0", "1", "2", "3", "4", "5", "6", "7", "8", "9", ":", ";", "<", "=", ">", "?",
    "@", "A", "B", "C", "D", "E", "F", "G", "H", "I", "J", "K", "L", "M", "N", "O",
    "P", "Q", "R", "S", "T", "U", "V", "W", "X", "Y", "Z", "[", "\\", "]", "^", "_",
    "U+96", "a", "b", "c", "d", "e", "f", "g", "h", "i", "j", "k", "l", "m", "n", "o",
    "p", "q", "r", "s", "t", "u", "v", "w", "x", "y", "z", "{", "|", "}", "~">>

\* chr(n)
Chr(n) == IF n \in 32..126 THEN AsciiPrintable[n - 31] ELSE "U+" \o ToString(n)

\* the characters str.strip() and str.split() treat as whitespace (ASCII ones)
Whitespace == {" ", Chr(9), Chr(10), Chr(11), Chr(12), Chr(13)}

\* needle in hay, for two str
PyIn(needle, hay) ==
  \E i \in 0..(Len(hay) - Len(needle)) : SubSeq(hay, i + 1, i + Len(needle)) = needle

StartsWith(s, p) == Len(s) >= Len(p) /\ SubSeq(s, 1, Len(p)) = p

RECURSIVE lstrip(_)
lstrip(s) == IF s # <<>> /\ Head(s) \in Whitespace THEN lstrip(Tail(s)) ELSE s

RECURSIVE rstrip(_)
rstrip(s) ==
  IF s # <<>> /\ s[Len(s)] \in Whitespace THEN rstrip(SubSeq(s, 1, Len(s) - 1)) ELSE s

\* str.strip()
strip(s) == rstrip(lstrip(s))

RECURSIVE split_ws(_, _, _)
split_ws(s, cur, acc) ==
  IF s = <<>> THEN (IF cur = <<>> THEN acc ELSE Append(acc, cur))
  ELSE IF Head(s) \in Whitespace
       THEN split_ws(Tail(s), <<>>, IF cur = <<>> THEN acc ELSE Append(acc, cur))
       ELSE split_ws(Tail(s), Append(cur, Head(s)), acc)

\* str.split(): the maximal runs of non-whitespace, in order
split(s) == split_ws(s, <<>>, <<>>)

RECURSIVE split_sep(_, _, _, _)
split_sep(s, sep, cur, acc) ==
  IF s = <<>> THEN Append(acc, cur)
  ELSE IF Head(s) = sep
       THEN split_sep(Tail(s), sep, <<>>, Append(acc, cur))
       ELSE split_sep(Tail(s), sep, Append(cur, Head(s)), acc)

RECURSIVE join(_, _)
join(sep, parts) ==
  IF parts = <<>> THEN <<>>
  ELSE IF Len(parts) = 1 THEN parts[1]
  ELSE parts[1] \o <<sep>> \o join(sep, Tail(parts))

\* str(n) for the verbosity levels 0..9
IntStr(n) == <<AsciiPrintable[n + 17]>>

----------------------------------------------------------------------------
(* os.path (posixpath) *)

\* os.getcwd()
CWD == <<"/", "w">>

isabs(p) == StartsWith(p, <<"/">>)

\* os.path.join(a, b)
path_join(a, b) ==
  IF isabs(b) THEN b
  ELSE IF a = <<>> \/ a[Len(a)] = "/" THEN a \o b
  ELSE a \o <<"/">> \o b

RECURSIVE norm_comps(_, _, _)
norm_comps(comps, rooted, new) ==
  IF comps = <<>> THEN new
  ELSE LET comp == Head(comps)
           rest == Tail(comps)
       IN IF comp = <<>> \/ comp = <<".">> THEN norm_comps(rest, rooted, new)
          ELSE IF \/ comp # <<".", ".">>
                  \/ (~rooted /\ new = <<>>)
                  \/ (new # <<>> /\ new[Len(new)] = <<".", ".">>)
               THEN norm_comps(rest, rooted, Append(new, comp))
          ELSE IF new # <<>>
               THEN norm_comps(rest, rooted, SubSeq(new, 1, Len(new) - 1))
          ELSE norm_comps(rest, rooted, new)

\* os.path.normpath(path)
normpath(path) ==
  IF path = <<>> THEN <<".">>
  ELSE LET slashes == IF ~isabs(path) THEN <<>>
                      ELSE IF StartsWith(path, <<"/", "/">>)
                              /\ ~StartsWith(path, <<"/", "/", "/">>)
                           THEN <<"/", "/">>
                      ELSE <<"/">>
           new == norm_comps(split_sep(path, "/", <<>>, <<>>), slashes # <<>>, <<>>)
           res == slashes \o join("/", new)
       IN IF res = <<>> THEN <<".">> ELSE res

\* os.path.abspath(path)
abspath(path) == normpath(IF isabs(path) THEN path ELSE path_join(CWD, path))

RECURSIVE rfind(_, _, _)
rfind(s, c, i) == IF i = 0 THEN 0 ELSE IF s[i] = c THEN i ELSE rfind(s, c, i - 1)

\* os.path.basename(p): what follows the last '/'
basename(p) == SubSeq(p, rfind(p, "/", Len(p)) + 1, Len(p))

\* os.path.isdir / os.path.isfile on the file system fs
isdir(f, p) == p \in f.dirs
isfile(f, p) == p \in f.files

----------------------------------------------------------------------------
(* module constants *)

\* the resolved 7z.exe (its directory depends on where the module is installed)
EXE_PATH == <<"/", "7", "z", ".", "e", "x", "e">>

\* '\x7f', the password substituted for None
DEL == <<Chr(127)>>

\* 'Everything is Ok'
MARKER == <<"E", "v", "e", "r", "y", "t", "h", "i", "n", "g", " ", "i", "s", " ", "O", "k">>

\* 'something went wrong: '
WentWrong ==
  <<"s", "o", "m", "e", "t", "h", "i", "n", "g", " ", "w", "e", "n", "t", " ",
    "w", "r", "o", "n", "g", ":", " ">>

\* '\\/:*?"<>|'
ReservedChars == <<"\\", "/", ":", "*", "?", "\"", "<", ">", "|">>

\* the overwrite modes archive_extract accepts
OverwriteModes == {<<"a">>, <<"s">>, <<"u">>, <<"t">>}

----------------------------------------------------------------------------
(* bytes.decode('cp1252') *)

\* code points of the bytes 0x80..0x9f; 0 where cp1252 defines none
Cp1252High ==
  <<8364, 0, 8218, 402, 8222, 8230, 8224, 8225, 710, 8240, 352, 8249, 338, 0, 381, 0,
    0, 8216, 8217, 8220, 8221, 8226, 8211, 8212, 732, 8482, 353, 8250, 339, 0, 382, 376>>

cp1252_defined(b) == ~(b \in 128..159 /\ Cp1252High[b - 127] = 0)

cp1252_char(b) == IF b \in 128..159 THEN Chr(Cp1252High[b - 127]) ELSE Chr(b)

\* decode with errors='strict': the text, or a UnicodeDecodeError
cp1252_decode(bytes) ==
  IF \A i \in 1..Len(bytes) : cp1252_defined(bytes[i])
  THEN [ok |-> TRUE, text |-> [i \in 1..Len(bytes) |-> cp1252_char(bytes[i])]]
  ELSE [ok |-> FALSE, text |-> <<>>]

----------------------------------------------------------------------------
(* the steps of a call, in statement order *)

Check(at, kind, text, fails) == [at |-> at, kind |-> kind, text |-> text, fails |-> fails]

\* subprocess.check_output(command) starts the child process
Spawn == Check("spawn", "none", <<>>, FALSE)

RECURSIVE RunFrom(_, _, _)
RunFrom(steps, i, n) ==
  IF i > Len(steps) THEN [spawned |-> n, kind |-> "none", at |-> "none", text |-> <<>>]
  ELSE IF steps[i].at = "spawn" THEN RunFrom(steps, i + 1, n + 1)
  ELSE IF steps[i].fails
       THEN [spawned |-> n, kind |-> steps[i].kind, at |-> steps[i].at,
             text |-> steps[i].text]
  ELSE RunFrom(steps, i + 1, n)

\* run the steps up to the first one that raises
Run(steps) == RunFrom(steps, 1, 0)

\* password checks shared by the three operations
password_empty(password) == ~(Len(password.s) > 0)

\* the double-quote test left out
password_has_quote_unchecked(password) == FALSE

password_has_quote(password) == "\"" \in Range(password.s)

----------------------------------------------------------------------------
(* archive_create *)

\* the dict seen: basename -> set of the item paths with that basename
seen(files) ==
  [name \in {basename(files[i]) : i \in 1..Len(files)} |->
     {files[i] : i \in {j \in 1..Len(files) : basename(files[j]) = name}}]

\* the item_name of the first entry of seen.items() with more than one path
\* (a dict keeps insertion order); <<>> and found = FALSE when there is none
first_conflict(files) ==
  LET bad == {i \in 1..Len(files) : Cardinality(seen(files)[basename(files[i])]) > 1}
  IN IF bad = {} THEN [found |-> FALSE, name |-> <<>>]
     ELSE [found |-> TRUE,
           name |-> basename(files[CHOOSE i \in bad : \A j \in bad : i <= j])]

archive_create_checks(a, f) ==
  LET archive_path == abspath(a.archive)
  IN << Check("duplicate", "ValueError", first_conflict(a.files).name,
              first_conflict(a.files).found),
        Check("dest_dir", "AssertionError", <<>>, isdir(f, archive_path)),
        Check("dest_file", "AssertionError", <<>>,
              ~(Truthy(a.overwrite) \/ ~isfile(f, archive_path))),
        Check("volumes", "AssertionError", <<>>,
              a.volumes.t # "NoneType"
                /\ ~(a.volumes.t = "str" /\ Len(a.volumes.s) > 0)),
        Check("password_empty", "AssertionError", <<>>,
              a.password.t # "NoneType" /\ password_empty(a.password)),
        Check("password_quote", "NotImplementedError", <<>>,
              a.password.t # "NoneType" /\ password_has_quote(a.password)) >>

\* the process spawned before the arguments are checked
archive_create_steps_spawn_first(a, f) == <<Spawn>> \o archive_create_checks(a, f)

\* the checks, then the spawn at line 115
archive_create_steps(a, f) == archive_create_checks(a, f) \o <<Spawn>>

\* the overwrite flag forgotten
create_overwrite_flag_never(overwrite) == <<>>

create_overwrite_flag(overwrite) ==
  IF Truthy(overwrite) THEN << <<"-", "a", "o", "a">> >> ELSE <<>>

create_volume_flags(volumes) ==
  IF volumes.t = "NoneType" THEN <<>>
  ELSE LET sizes == split(strip(volumes.s))
       IN [i \in 1..Len(sizes) |-> <<"-", "v">> \o sizes[i]]

\* header encryption requested whether or not there is a password
create_password_flags_mhe_alone(password, encrypt_headers) ==
  (IF password.t = "NoneType" THEN <<>> ELSE << <<"-", "p">> \o password.s >>)
  \o (IF encrypt_headers THEN << <<"-", "m", "h", "e">> >> ELSE <<>>)

create_password_flags(password, encrypt_headers) ==
  IF password.t = "NoneType" THEN <<>>
  ELSE << <<"-", "p">> \o password.s >>
       \o (IF encrypt_headers THEN << <<"-", "m", "h", "e">> >> ELSE <<>>)

archive_create_command(a) ==
  LET archive_path == abspath(a.archive)
      todo_paths == [i \in 1..Len(a.files) |-> abspath(a.files[i])]
  IN << EXE_PATH,
        <<"a">>,
        archive_path,
        <<"-", "t", "7", "z">>,
        <<"-", "m", "0", "=", "l", "z", "m", "a", "2">>,
        <<"-", "m", "x", "=", "9">>,
        <<"-", "b", "b">> \o IntStr(a.verbose),
        <<"-", "b", "t">> >>
     \o create_overwrite_flag(a.overwrite)
     \o create_volume_flags(a.volumes)
     \o create_password_flags(a.password, a.encrypt_headers)
     \o todo_paths

----------------------------------------------------------------------------
(* archive_test *)

\* password = '\x7f' if password is None
default_password(password) == IF password.t = "NoneType" THEN PyStr(DEL) ELSE password

archive_test_checks(a, f) ==
  LET password == default_password(a.password)
  IN << Check("password_empty", "AssertionError", <<>>, password_empty(password)),
        Check("password_quote", "NotImplementedError", <<>>,
              password_has_quote(password)) >>

archive_test_steps(a, f) == archive_test_checks(a, f) \o <<Spawn>>

archive_test_command(a) ==
  LET archive_path == abspath(a.archive)
      password == default_password(a.password)
  IN << EXE_PATH,
        <<"t">>,
        archive_path,
        <<"-", "p">> \o password.s,
        <<"-", "b", "b">> \o IntStr(a.verbose),
        <<"-", "b", "t">> >>

----------------------------------------------------------------------------
(* archive_extract *)

\* into_dir = '.' if into_dir is None, then abspath(into_dir.strip())
extract_into_dir(into_dir) ==
  abspath(strip(IF into_dir.t = "NoneType" THEN <<".">> ELSE into_dir.s))

\* False taken for 'overwrite all'
overwrite_mode_false_overwrites(overwrite) ==
  IF overwrite.t = "bool" THEN PyStr(<<"a">>) ELSE overwrite

\* True -> 'a', False -> 's' (tested with 'is'), anything else as given
overwrite_mode(overwrite) ==
  IF overwrite.t = "bool" /\ overwrite.b THEN PyStr(<<"a">>)
  ELSE IF overwrite.t = "bool" /\ ~overwrite.b THEN PyStr(<<"s">>)
  ELSE overwrite

archive_extract_checks(a, f) ==
  LET archive_path == abspath(a.archive)
      password == default_password(a.password)
      into_dir == extract_into_dir(a.into_dir)
      overwrite == overwrite_mode(a.overwrite)
  IN << Check("archive_missing", "AssertionError", <<>>, ~isfile(f, archive_path)),
        Check("password_empty", "AssertionError", <<>>, password_empty(password)),
        Check("dir_empty", "AssertionError", <<>>, ~(Len(into_dir) > 0)),
        Check("dir_name", "AssertionError", <<>>,
              ~(\A i \in 1..Len(ReservedChars) :
                   ReservedChars[i] \notin Range(basename(into_dir)))),
        Check("dir_is_file", "AssertionError", <<>>, isfile(f, into_dir)),
        Check("password_quote", "NotImplementedError", <<>>,
              password_has_quote(password)),
        Check("overwrite_mode", "AssertionError", <<>>,
              ~(overwrite.t = "str" /\ overwrite.s \in OverwriteModes)) >>

archive_extract_steps(a, f) == archive_extract_checks(a, f) \o <<Spawn>>

\* the archive path placed before the switches
archive_extract_command_archive_first(a) ==
  LET archive_path == abspath(a.archive)
      password == default_password(a.password)
      into_dir == extract_into_dir(a.into_dir)
      overwrite == overwrite_mode(a.overwrite)
  IN << EXE_PATH,
        IF a.flat THEN <<"e">> ELSE <<"x">>,
        archive_path,
        <<"-", "o">> \o into_dir,
        <<"-", "p">> \o password.s,
        <<"-", "a", "o">> \o overwrite.s,
        <<"-", "b", "b">> \o IntStr(a.verbose),
        <<"-", "b", "t">> >>

archive_extract_command(a) ==
  LET archive_path == abspath(a.archive)
      password == default_password(a.password)
      into_dir == extract_into_dir(a.into_dir)
      overwrite == overwrite_mode(a.overwrite)
  IN << EXE_PATH,
        IF a.flat THEN <<"e">> ELSE <<"x">>,
        <<"-", "o">> \o into_dir,
        <<"-", "p">> \o password.s,
        <<"-", "a", "o">> \o overwrite.s,
        <<"-", "b", "b">> \o IntStr(a.verbose),
        <<"-", "b", "t">>,
        archive_path >>

----------------------------------------------------------------------------
(* subprocess.check_output(command).decode('cp1252'), the marker check and
   the return *)

Outcome(kind, at, text) == [kind |-> kind, at |-> at, text |-> text]

\* the exit status ignored (subprocess.run without check)
invocation_outcome_any_status(status, stdout) ==
  LET ret_val == cp1252_decode(stdout)
  IN IF ~ret_val.ok THEN Outcome("UnicodeDecodeError", "decode", <<>>)
     ELSE IF ~PyIn(MARKER, ret_val.text)
          THEN Outcome("AssertionError", "marker", WentWrong \o ret_val.text)
     ELSE Outcome("return", "return", ret_val.text)

invocation_outcome(status, stdout) ==
  IF status # 0 THEN Outcome("CalledProcessError", "check_output", <<>>)
  ELSE LET ret_val == cp1252_decode(stdout)
       IN IF ~ret_val.ok THEN Outcome("UnicodeDecodeError", "decode", <<>>)
          ELSE IF ~PyIn(MARKER, ret_val.text)
               THEN Outcome("AssertionError", "marker", WentWrong \o ret_val.text)
          ELSE Outcome("return", "return", ret_val.text)

----------------------------------------------------------------------------
(* the calls a caller makes and what the child process answers *)

\* 'a', './a', 'd/a', 'a/', 'b'
ItemPaths ==
  {<<"a">>, <<".", "/", "a">>, <<"d", "/", "a">>, <<"a", "/">>, <<"b">>}

FileLists == UNION {[1..n -> ItemPaths] : n \in 0..MaxFiles}

\* 'o.7z', 'd'
Archives == {<<"o", ".", "7", "z">>, <<"d">>}

\* None, '', 'pw', 'p"'
Passwords == {PyNone, PyStr(<<>>), PyStr(<<"p", "w">>), PyStr(<<"p", "\"">>)}

\* None, '', ' ', ' 1k  2m ', 5
VolumeSpecs ==
  {PyNone, PyStr(<<>>), PyStr(<<" ">>),
   PyStr(<<" ", "1", "k", " ", " ", "2", "m", " ">>), PyInt(<<"5">>)}

Verbosities == {0, 3}

\* None, '', ' ', 'd ', 'o.7z', 'a:b', 'a:b/n'
IntoDirs ==
  {PyNone, PyStr(<<>>), PyStr(<<" ">>), PyStr(<<"d", " ">>),
   PyStr(<<"o", ".", "7", "z">>), PyStr(<<"a", ":", "b">>),
   PyStr(<<"a", ":", "b", "/", "n">>)}

\* True, False, 'a', 's', 'u', 't', 'x', 'as', 1, None
ExtractOverwrites ==
  {PyBool(TRUE), PyBool(FALSE), PyStr(<<"a">>), PyStr(<<"s">>), PyStr(<<"u">>),
   PyStr(<<"t">>), PyStr(<<"x">>), PyStr(<<"a", "s">>), PyInt(<<"1">>), PyNone}

\* the current directory alone; or with the directory /w/d and the file /w/o.7z
FileSystems ==
  {[dirs |-> {CWD}, files |-> {}],
   [dirs |-> {CWD, <<"/", "w", "/", "d">>},
    files |-> {<<"/", "w", "/", "o", ".", "7", "z">>}]}

ExitStatuses == {0, 1, 2}

\* b'Everything is Ok'
MarkerBytes == <<69, 118, 101, 114, 121, 116, 104, 105, 110, 103, 32, 105, 115, 32, 79, 107>>

\* b'', the marker, the marker after 0x80, the marker before 0x81 (a byte
\* cp1252 does not define), b'Everything is ok'
Stdouts ==
  {<<>>, MarkerBytes, <<128>> \o MarkerBytes, MarkerBytes \o <<129>>,
   <<69, 118, 101, 114, 121, 116, 104, 105, 110, 103, 32, 105, 115, 32, 111, 107>>}

NoArgs == [archive |-> <<>>]
NoProc == [exited |-> FALSE, status |-> 0, stdout |-> <<>>]
NoOutcome == Outcome("none", "none", <<>>)

----------------------------------------------------------------------------
(* the state machine *)

Init ==
  /\ fs \in FileSystems
  /\ pc = "idle"
  /\ op = "none"
  /\ args = NoArgs
  /\ argv = <<>>
  /\ spawned = 0
  /\ proc = NoProc
  /\ outcome = NoOutcome

\* a call runs its steps: it raises at the first failing check, or it is left
\* waiting in check_output for the child process it spawned
Enter(name, a, steps, command) ==
  LET r == Run(steps)
  IN /\ op' = name
     /\ args' = a
     /\ spawned' = r.spawned
     /\ argv' = IF r.spawned > 0 THEN command ELSE <<>>
     /\ pc' = IF r.kind = "none" THEN "running" ELSE "done"
     /\ outcome' = Outcome(r.kind, r.at, r.text)
     /\ UNCHANGED <<fs, proc>>

archive_create ==
  /\ pc = "idle"
  /\ \E files \in FileLists, archive \in Archives, password \in Passwords,
        encrypt_headers \in BOOLEAN, overwrite \in BOOLEAN, verbose \in Verbosities,
        volumes \in VolumeSpecs :
       LET a == [files |-> files, archive |-> archive, password |-> password,
                 encrypt_headers |-> encrypt_headers, overwrite |-> PyBool(overwrite),
                 verbose |-> verbose, volumes |-> volumes]
       IN Enter("archive_create", a, archive_create_steps(a, fs),
                archive_create_command(a))

archive_test ==
  /\ pc = "idle"
  /\ \E archive \in Archives, password \in Passwords, verbose \in Verbosities :
       LET a == [archive |-> archive, password |-> password, verbose |-> verbose]
       IN Enter("archive_test", a, archive_test_steps(a, fs), archive_test_command(a))

archive_extract ==
  /\ pc = "idle"
  /\ \E archive \in Archives, into_dir \in IntoDirs, password \in Passwords,
        flat \in BOOLEAN, overwrite \in ExtractOverwrites, verbose \in Verbosities :
       LET a == [archive |-> archive, into_dir |-> into_dir, password |-> password,
                 flat |-> flat, overwrite |-> overwrite, verbose |-> verbose]
       IN Enter("archive_extract", a, archive_extract_steps(a, fs),
                archive_extract_command(a))

\* the child process exits; check_output returns or raises, and the call ends
check_output ==
  /\ pc = "running"
  /\ \E status \in ExitStatuses, stdout \in Stdouts :
       /\ proc' = [exited |-> TRUE, status |-> status, stdout |-> stdout]
       /\ outcome' = invocation_outcome(status, stdout)
       /\ pc' = "done"
       /\ UNCHANGED <<fs, op, args, argv, spawned>>

\* the caller has the result or the exception; the next call starts afresh
Return ==
  /\ pc = "done"
  /\ pc' = "idle"
  /\ op' = "none"
  /\ args' = NoArgs
  /\ argv' = <<>>
  /\ spawned' = 0
  /\ proc' = NoProc
  /\ outcome' = NoOutcome
  /\ UNCHANGED fs

Next ==
  \/ archive_create
  \/ archive_test
  \/ archive_extract
  \/ check_output
  \/ Return

Spec == Init /\ [][Next]_vars

----------------------------------------------------------------------------
(* properties *)

\* the decimal digits, for a verbosity level as the tool reads it
Digits == <<"0", "1", "2", "3", "4", "5", "6", "7", "8", "9">>

InCall(name) == op = name /\ pc \in {"running", "done"}

\* the call ended in an exception raised by one of its checks
Rejected == pc = "done" /\ outcome.at \notin {"check_output", "decode", "marker", "return"}

\* the final path component of the location an item path names
FinalComponent(path) == basename(abspath(path))

SharesBasename(files) ==
  \E i, j \in 1..Len(files) : i # j /\ FinalComponent(files[i]) = FinalComponent(files[j])

\* C1: archive_create with an input list in which two entries share a
\* basename always fails with ValueError carrying the duplicated name, and
\* spawns no child process; also when the two entries are the same path, two
\* spellings of one location, or written with a trailing separator.
C1_DuplicateBasenameRejected ==
  (InCall("archive_create") /\ SharesBasename(args.files))
    => /\ pc = "done"
       /\ outcome.kind = "ValueError"
       /\ \E i, j \in 1..Len(args.files) :
            /\ i # j
            /\ FinalComponent(args.files[i]) = outcome.text
            /\ FinalComponent(args.files[j]) = outcome.text
       /\ spawned = 0

----------------------------------------------------------------------------
(* C2: a password containing a double quote *)

QuotePassword == args.password.t = "str" /\ "\"" \in Range(args.password.s)

AnyCall == InCall("archive_create") \/ InCall("archive_test") \/ InCall("archive_extract")

\* C2 as stated: in each of the three operations, whatever the other
\* arguments and the file system, a call whose password contains a double
\* quote fails with NotImplementedError and spawns no process.
C2_QuoteAlwaysNotImplemented ==
  (AnyCall /\ QuotePassword)
    => (pc = "done" /\ outcome.kind = "NotImplementedError" /\ spawned = 0)

\* two entries, written differently, whose basenames as written are equal
WrittenConflict(files) ==
  \E i, j \in 1..Len(files) :
    files[i] # files[j] /\ basename(files[i]) = basename(files[j])

\* what archive_create tests before it looks at the password's characters
CreateEarlierChecksPass ==
  /\ ~WrittenConflict(args.files)
  /\ ~isdir(fs, abspath(args.archive))
  /\ (args.overwrite.b \/ ~isfile(fs, abspath(args.archive)))
  /\ (args.volumes.t = "NoneType" \/ (args.volumes.t = "str" /\ args.volumes.s # <<>>))

\* what archive_extract tests before it looks at the password's characters
ExtractEarlierChecksPass ==
  LET dir == abspath(strip(IF args.into_dir.t = "NoneType" THEN <<".">>
                           ELSE args.into_dir.s))
  IN /\ isfile(fs, abspath(args.archive))
     /\ Range(basename(dir)) \cap Range(ReservedChars) = {}
     /\ ~isfile(fs, dir)

\* C2 (amended): a call whose password contains a double quote always ends
\* in an exception raised before any process is spawned; the exception is
\* NotImplementedError exactly when no check ordered before the password
\* check fails (always in archive_test), and the earlier check's ValueError
\* or AssertionError otherwise.
C2_QuoteNeverInvoked ==
  (AnyCall /\ QuotePassword)
    => /\ pc = "done"
       /\ spawned = 0
       /\ argv = <<>>
       /\ outcome.kind \in {"NotImplementedError", "ValueError", "AssertionError"}
       /\ outcome.at # "marker"
       /\ op = "archive_test" => outcome.kind = "NotImplementedError"
       /\ op = "archive_create"
            => (outcome.kind = "NotImplementedError" <=> CreateEarlierChecksPass)
       /\ op = "archive_extract"
            => (outcome.kind = "NotImplementedError" <=> ExtractEarlierChecksPass)

C2_Witness ==
  /\ InCall("archive_create")
  /\ QuotePassword
  /\ outcome.kind = "NotImplementedError"
  /\ Len(args.files) = 2

----------------------------------------------------------------------------
(* C3: the spawn comes after every check, and happens once *)

\* C3: a call spawns at most one child process, and none when it ends in
\* ValueError, NotImplementedError or an AssertionError of a validation check
\* (every check is ordered before the spawn); a failure of the child process
\* or of the marker check is not followed by a second spawn.
C3_AtMostOneSpawn ==
  /\ spawned \in {0, 1}
  /\ Rejected => (spawned = 0 /\ argv = <<>> /\ ~proc.exited)
  /\ (pc = "done" /\ outcome.kind \in {"ValueError", "NotImplementedError"}) => spawned = 0
  /\ (pc = "done" /\ outcome.kind = "AssertionError" /\ outcome.at # "marker")
       => spawned = 0
  /\ (pc = "running" \/ proc.exited) => spawned = 1
  /\ (pc = "done" /\ spawned = 0) => Rejected

C3_Witness ==
  /\ InCall("archive_extract")
  /\ Rejected
  /\ outcome.at = "overwrite_mode"
  /\ spawned = 0

----------------------------------------------------------------------------
(* C4, C5: what decides the outcome once the process was spawned *)

\* the marker is in the cp1252 text of the captured output
MarkerInOutput ==
  LET d == cp1252_decode(proc.stdout) IN d.ok /\ PyIn(MARKER, d.text)

\* C4: after validation, a non-zero exit status gives CalledProcessError;
\* otherwise the output is decoded and the call returns exactly the decoded
\* text if the marker is in it, and fails with the AssertionError carrying
\* the text if not; nothing is returned without the marker.
C4_OutcomeOrder ==
  proc.exited =>
    /\ proc.status # 0 => outcome.kind = "CalledProcessError"
    /\ proc.status = 0 =>
         /\ outcome.kind \in {"return", "AssertionError"}
         /\ outcome.kind = "return" <=> PyIn(MarkerBytes, proc.stdout)
         /\ outcome.kind = "AssertionError" =>
              (outcome.at = "marker" /\ Len(outcome.text) = Len(WentWrong) + Len(proc.stdout))
    /\ outcome.kind = "return" =>
         /\ outcome.text = cp1252_decode(proc.stdout).text
         /\ PyIn(MARKER, outcome.text)

\* C5 as stated: a call that reached process invocation succeeds if and only
\* if the marker is in the decoded standard output, for every exit status.
C5_MarkerAloneDecides ==
  proc.exited => (outcome.kind = "return" <=> MarkerInOutput)

\* C5 (amended): a call that reached process invocation succeeds if and only
\* if the child exits with status zero, its output decodes as cp1252 and the
\* decoded output contains the marker; without the marker the call fails for
\* every exit status, and a non-zero exit status fails it even with the
\* marker.
C5_MarkerAndExitStatusDecide ==
  proc.exited =>
    /\ outcome.kind = "return" <=> (proc.status = 0 /\ MarkerInOutput)
    /\ ~MarkerInOutput => outcome.kind # "return"
    /\ proc.status # 0 => outcome.kind = "CalledProcessError"

C5_Witness ==
  /\ proc.exited
  /\ proc.status # 0
  /\ MarkerInOutput
  /\ outcome.kind = "CalledProcessError"

----------------------------------------------------------------------------
(* C6: archive_create's destination *)

AOA == <<"-", "a", "o", "a">>

\* C6: archive_create rejects a destination that is an existing directory
\* whatever overwrite is, and one that is an existing file when overwrite is
\* false; with overwrite true an existing file passes the destination check
\* and the call, unless another check rejects it, spawns the process with
\* '-aoa' in the argument vector; '-aoa' is in the argument vector if and
\* only if overwrite was requested; a rejected call spawns nothing.
C6_DestinationCheck ==
  InCall("archive_create") =>
    LET dest == abspath(args.archive)
    IN /\ isdir(fs, dest) => (Rejected /\ spawned = 0)
       /\ (isfile(fs, dest) /\ ~args.overwrite.b) => (Rejected /\ spawned = 0)
       /\ (isfile(fs, dest) /\ args.overwrite.b) =>
            /\ outcome.at \notin {"dest_dir", "dest_file"}
            /\ outcome.at \notin {"duplicate", "volumes", "password_empty",
                                  "password_quote"}
                 => (spawned = 1 /\ AOA \in Range(argv))
       /\ spawned > 0 => (AOA \in Range(argv) <=> args.overwrite.b)
       /\ Rejected => (spawned = 0 /\ argv = <<>>)

C6_Witness ==
  /\ InCall("archive_create")
  /\ isfile(fs, abspath(args.archive))
  /\ args.overwrite.b
  /\ spawned = 1
  /\ AOA \in Range(argv)

----------------------------------------------------------------------------
(* C7, C8, C10: archive_extract *)

\* the positions of the argument vector that hold an overwrite-mode flag
OverwriteFlags == {i \in 1..Len(argv) : StartsWith(argv[i], <<"-", "a", "o">>)}

\* C7: archive_extract maps overwrite True to 'a', False to 's' and each of
\* 'a', 's', 'u', 't' to itself, and the argument vector carries exactly one
\* flag '-ao<code>', with that code; any other value is rejected by an
\* exception before a process is spawned (by the overwrite assertion when the
\* archive exists and password and destination are left to their defaults).
C7_OverwriteMapping ==
  InCall("archive_extract") =>
    LET ow == args.overwrite
        code == CASE ow = PyBool(TRUE) -> <<"a">>
                  [] ow = PyBool(FALSE) -> <<"s">>
                  [] ow = PyStr(<<"a">>) -> <<"a">>
                  [] ow = PyStr(<<"s">>) -> <<"s">>
                  [] ow = PyStr(<<"u">>) -> <<"u">>
                  [] ow = PyStr(<<"t">>) -> <<"t">>
                  [] OTHER -> <<>>
    IN /\ (spawned > 0) =>
            /\ code # <<>>
            /\ Cardinality(OverwriteFlags) = 1
            /\ \A i \in OverwriteFlags : argv[i] = <<"-", "a", "o">> \o code
       /\ code = <<>> =>
            /\ Rejected
            /\ spawned = 0
            /\ (/\ isfile(fs, abspath(args.archive))
                /\ args.password = PyNone
                /\ args.into_dir = PyNone)
                 => (outcome.kind = "AssertionError" /\ outcome.at = "overwrite_mode")

C7_Witness ==
  /\ InCall("archive_extract")
  /\ args.overwrite = PyBool(FALSE)
  /\ spawned = 1
  /\ <<"-", "a", "o", "s">> \in Range(argv)

\* the destination as the caller gave it is acceptable
GoodDestination ==
  \/ args.into_dir.t = "NoneType"
  \/ /\ strip(args.into_dir.s) # <<>>
     /\ Range(FinalComponent(strip(args.into_dir.s))) \cap Range(ReservedChars) = {}
     /\ ~isfile(fs, abspath(strip(args.into_dir.s)))

\* C8: archive_extract reaches process invocation only if the destination
\* the caller gave is non-empty (after stripping whitespace), has no reserved
\* character in its final component and is not an existing regular file; any
\* other destination is rejected before a process is spawned; without a
\* destination the current directory is used.
C8_DestinationValidated ==
  InCall("archive_extract") =>
    /\ spawned > 0 => GoodDestination
    /\ ~GoodDestination => (Rejected /\ spawned = 0)
    /\ (spawned > 0 /\ args.into_dir.t = "NoneType") => argv[3] = <<"-", "o">> \o CWD

\* C10: an accepted archive_extract call runs exactly: executable, 'e' if
\* flat else 'x', '-o<absolute destination>', '-p<password>', '-ao<mode>',
\* '-bb<verbosity>', '-bt', absolute archive path (last); there is exactly
\* one password argument, with the caller's password or, when none was given,
\* the one-character sentinel DEL, which archive_test substitutes too.
C10_ExtractCommand ==
  /\ (InCall("archive_extract") /\ spawned > 0) =>
       /\ Len(argv) = 8
       /\ argv[1] = EXE_PATH
       /\ argv[2] = (IF args.flat THEN <<"e">> ELSE <<"x">>)
       /\ argv[3] = <<"-", "o">>
                      \o abspath(strip(IF args.into_dir.t = "NoneType" THEN <<".">>
                                       ELSE args.into_dir.s))
       /\ isabs(SubSeq(argv[3], 3, Len(argv[3])))
       /\ argv[4] = <<"-", "p">>
                      \o (IF args.password.t = "NoneType" THEN <<Chr(127)>>
                          ELSE args.password.s)
       /\ Len(argv[4]) >= 3
       /\ {i \in 1..Len(argv) : StartsWith(argv[i], <<"-", "p">>)} = {4}
       /\ StartsWith(argv[5], <<"-", "a", "o">>) /\ Len(argv[5]) = 4
       /\ argv[6] = <<"-", "b", "b", Digits[args.verbose + 1]>>
       /\ argv[7] = <<"-", "b", "t">>
       /\ argv[Len(argv)] = abspath(args.archive)
       /\ isabs(argv[Len(argv)])
  /\ (InCall("archive_test") /\ spawned > 0 /\ args.password.t = "NoneType") =>
       argv[4] = <<"-", "p", Chr(127)>>

C10_Witness ==
  /\ InCall("archive_extract")
  /\ spawned = 1
  /\ args.password.t = "NoneType"
  /\ args.flat
  /\ argv[4] = <<"-", "p", Chr(127)>>

----------------------------------------------------------------------------
(* C9: archive_create's argument vector *)

\* C9: an accepted archive_create call runs, in this order: executable, 'a',
\* absolute archive path, '-t7z', '-m0=lzma2', '-mx=9', '-bb<verbosity>',
\* '-bt'; '-aoa' iff overwrite; one '-v<token>' per whitespace-separated
\* token of the volume spec, in order, iff a volume spec is given;
\* '-p<password>' iff a password is given, then '-mhe' iff a password is given
\* and header encryption is requested; the absolute input paths, in input
\* order, last.
C9_CreateCommand ==
  (InCall("archive_create") /\ spawned > 0) =>
    LET nOw == IF args.overwrite.b THEN 1 ELSE 0
        tokens == IF args.volumes.t = "NoneType" THEN <<>> ELSE split(args.volumes.s)
        nVol == Len(tokens)
        hasPw == args.password.t # "NoneType"
        nPw == IF hasPw THEN 1 ELSE 0
        hasMhe == hasPw /\ args.encrypt_headers
        nMhe == IF hasMhe THEN 1 ELSE 0
        nFiles == Len(args.files)
        MHE == <<"-", "m", "h", "e">>
    IN /\ Len(argv) = 8 + nOw + nVol + nPw + nMhe + nFiles
       /\ SubSeq(argv, 1, 8)
            = << EXE_PATH, <<"a">>, abspath(args.archive), <<"-", "t", "7", "z">>,
                 <<"-", "m", "0", "=", "l", "z", "m", "a", "2">>,
                 <<"-", "m", "x", "=", "9">>,
                 <<"-", "b", "b", Digits[args.verbose + 1]>>,
                 <<"-", "b", "t">> >>
       /\ isabs(argv[3])
       /\ args.overwrite.b => argv[9] = AOA
       /\ AOA \in Range(argv) <=> args.overwrite.b
       /\ \A k \in 1..nVol :
            /\ argv[8 + nOw + k] = <<"-", "v">> \o tokens[k]
            /\ tokens[k] # <<>>
            /\ Range(tokens[k]) \cap Whitespace = {}
       /\ Cardinality({i \in 1..Len(argv) : StartsWith(argv[i], <<"-", "v">>)}) = nVol
       /\ hasPw => argv[8 + nOw + nVol + 1] = <<"-", "p">> \o args.password.s
       /\ (\E i \in 1..Len(argv) : StartsWith(argv[i], <<"-", "p">>)) <=> hasPw
       /\ hasMhe => argv[8 + nOw + nVol + 2] = MHE
       /\ MHE \in Range(argv) <=> hasMhe
       /\ \A k \in 1..nFiles :
            /\ argv[Len(argv) - nFiles + k] = abspath(args.files[k])
            /\ isabs(argv[Len(argv) - nFiles + k])

C9_Witness ==
  /\ InCall("archive_create")
  /\ spawned = 1
  /\ args.overwrite.b
  /\ args.volumes.t = "str"
  /\ Len(split(args.volumes.s)) = 2
  /\ args.password.t = "str"
  /\ args.encrypt_headers
  /\ Len(args.files) = 2

====
